---------------------------- MODULE Spec2Model ----------------------------
(***************************************************************************)
(* A model of woxml's XmlWriter (src/src/woxml.rs): the streaming XML      *)
(* writer with its element stack, namespace stack and the flags that       *)
(* steer the layout.  Every public method is one action; the private       *)
(* helpers (write, indent, ns_prefix, close_elem, escape) are operators on *)
(* a record holding the writer's fields.                                   *)
(*                                                                         *)
(* The sink is the sequence of the strings handed to write_all, one entry  *)
(* per call of XmlWriter::write / write_slice; Flatten gives its bytes.    *)
(* Strings that the code writes in one piece are TLA+ strings; strings     *)
(* that go through escape() are sequences of one-character strings, as     *)
(* escape() writes them character by character.                            *)
(***************************************************************************)
EXTENDS Naturals, Sequences, FiniteSets, TLC

VARIABLES
    stack,          \* Vec<(&str, bool)>: open elements, (name, has children)
    ns_stack,       \* Vec<Option<&str>>: namespace active at each begin_elem
    writer,         \* the sink: the strings written so far, in order
    namespace,      \* Option<&str>: the active namespace prefix
    pretty,         \* bool: pretty mode
    opened,         \* bool: a start tag is unterminated
    newline,        \* bool: the next indent() writes a newline
    text_content,   \* bool: text() was called
    status,         \* "live", "panicked" (a panic! unwound) or "consumed" (into_inner)
    faulty,         \* whether the sink of this run may return errors
    hist,           \* history: one record per public call made so far
    ids,            \* history: for each stack entry, the index into elems
    elems,          \* history: one record per element pushed by begin_elem
    buf,            \* Write::write_all: the bytes of buf not yet accepted
    ret,            \* Write::write_all: "idle", "running" or what it returned
    buf0,           \* history: the buf that write_all was called with
    accepted,       \* history: the bytes the sink's write accepted, in order
    writes          \* history: the number of calls of the sink's write

\* the variables of Write::write_all (src/src/write.rs)
wa_vars == <<buf, ret, buf0, accepted, writes>>

vars == <<stack, ns_stack, writer, namespace, pretty, opened, newline,
          text_content, status, faulty, hist, ids, elems, wa_vars>>

-----------------------------------------------------------------------------
(* Bounds of the model and the inputs the actions draw from.               *)

\* the number of public calls of one run on a sink that never fails
MaxCalls == 4
\* the number of public calls of one run on a sink that may fail
MaxFailCalls == 3
\* a failing sink fails at the (k+1)-th write of a call, k in 0..MaxFail
MaxFail == 4
\* the length of the texts handed to the escaping methods
MaxEscLen == 3
\* the length of the buffers handed to write_all
MaxBuf == 3

None == <<>>
Some(x) == <<x>>

Names == {"a", "b"}
LeafNames == {"c"}
Prefixes == {"p"}
Texts == {<<"t", "<">>}
NsMaps == {<<>>, << <<None, "u">>, <<Some("p"), "v">> >>}

\* the inputs of the end-to-end scenario of tests/woxml.rs
ScriptMap == << <<None, "http://localhost/">>, <<Some("st"), "http://127.0.0.1/">> >>
ScriptComment == <<"h", "i">>

\* the characters escape() tells apart, and one it passes through
EscChars == {"\"", "'", "&", "<", ">", "\\", "x"}
EscTexts == UNION {[1..k -> EscChars] : k \in 0..MaxEscLen}
\* a string that attr and cdata are to write as it is
RawStr == "<&\"'>\\x"

NoFault == [fails |-> FALSE, after |-> 0]
Faults == IF faulty
          THEN {NoFault} \cup {[fails |-> TRUE, after |-> k] : k \in 0..MaxFail}
          ELSE {NoFault}

-----------------------------------------------------------------------------
(* The writer as a record: the fields of XmlWriter, the outcome of the     *)
(* call in progress (err), the sink's remaining good writes (sink), and    *)
(* the history of the call (ends, popped).                                 *)

Self(f) ==
    [stack |-> stack, ns_stack |-> ns_stack, writer |-> writer,
     namespace |-> namespace, pretty |-> pretty, opened |-> opened,
     newline |-> newline, text_content |-> text_content,
     err |-> "Ok", sink |-> f,
     ids |-> ids, elems |-> elems, ends |-> 0, popped |-> <<>>]

Ok(s) == s.err = "Ok"

\* the outcomes that are a panic! (assert!, unwrap_or_else(|| panic!), panic!)
Panics == {"PanicAttr", "PanicNsDecl", "PanicCloseNamespace", "PanicCloseElement"}

RECURSIVE Flatten(_)
Flatten(toks) == IF toks = <<>> THEN "" ELSE Head(toks) \o Flatten(Tail(toks))

Last(q) == q[Len(q)]
Front(q) == SubSeq(q, 1, Len(q) - 1)

\* self.writer.write_all(text.as_bytes())?  -- one write of the sink
write(s, str) ==
    IF ~Ok(s) THEN s
    ELSE IF s.sink.fails /\ s.sink.after = 0 THEN [s EXCEPT !.err = "Io"]
    ELSE [s EXCEPT !.writer = Append(@, str),
                   !.sink.after = IF @ > 0 THEN @ - 1 ELSE 0]

RECURSIVE spaces(_, _)
spaces(s, k) == IF k = 0 THEN s ELSE spaces(write(s, "  "), k - 1)

\* indent as it would be if it did not suppress the first newline
indent_always_newline(s) ==
    IF ~Ok(s) THEN s
    ELSE LET n == Len(s.stack) IN
         IF s.pretty
         THEN spaces(write([s EXCEPT !.newline = TRUE], "\n"), n)
         ELSE s

indent(s) ==
    IF ~Ok(s) THEN s
    ELSE LET n == Len(s.stack) IN
         IF s.pretty
         THEN LET s1 == IF s.newline THEN write(s, "\n")
                        ELSE [s EXCEPT !.newline = TRUE]
              IN  spaces(s1, n)
         ELSE s

ns_prefix(s, ns) ==
    IF ~Ok(s) THEN s
    ELSE IF ns # None THEN write(write(s, ns[1]), ":")
    ELSE s

\* history: the start tag of the innermost pushed element was ended by tok
NoteTerm(s, tok) ==
    IF s.ids = <<>> THEN s
    ELSE [s EXCEPT !.elems[Last(s.ids)].term = Append(@, tok)]

\* close_elem as it would be if it left opened set
close_elem_stays_open(s, has_children) ==
    IF ~Ok(s) THEN s
    ELSE IF s.opened
    THEN LET tok == IF s.pretty /\ ~has_children THEN "/>" ELSE ">"
             s1 == write(s, tok)
         IN  IF Ok(s1) THEN NoteTerm(s1, tok) ELSE s1
    ELSE s

close_elem(s, has_children) ==
    IF ~Ok(s) THEN s
    ELSE IF s.opened
    THEN LET tok == IF s.pretty /\ ~has_children THEN "/>" ELSE ">"
             s1 == write(s, tok)
         IN  IF Ok(s1) THEN [NoteTerm(s1, tok) EXCEPT !.opened = FALSE] ELSE s1
    ELSE s

\* if let Some(mut previous) = self.stack.pop() { previous.1 = true; push }
mark_children(s) ==
    IF ~Ok(s) THEN s
    ELSE IF s.stack # <<>>
    THEN [s EXCEPT !.stack[Len(s.stack)] = <<@[1], TRUE>>]
    ELSE s

\* the match of escape() as it would be if it doubled every backslash
EscapeChar_any_backslash(c, ident) ==
    CASE c = "\"" -> "&quot;"
      [] c = "'" -> "&apos;"
      [] c = "&" -> "&amp;"
      [] c = "<" -> "&lt;"
      [] c = ">" -> "&gt;"
      [] c = "\\" -> "\\\\"
      [] OTHER -> c

EscapeChar(c, ident) ==
    CASE c = "\"" -> "&quot;"
      [] c = "'" -> "&apos;"
      [] c = "&" -> "&amp;"
      [] c = "<" -> "&lt;"
      [] c = ">" -> "&gt;"
      [] c = "\\" /\ ident -> "\\\\"
      [] OTHER -> c

RECURSIVE escape(_, _, _)
escape(s, chars, ident) ==
    IF chars = <<>> THEN s
    ELSE escape(write(s, EscapeChar(Head(chars), ident)), Tail(chars), ident)

-----------------------------------------------------------------------------
(* The public methods, as functions from the writer before the call to the *)
(* writer after it.                                                        *)

elem(s, nm) ==
    LET s1 == close_elem(s, FALSE)
        s2 == indent(s1)
        s3 == write(s2, "<")
        s4 == ns_prefix(s3, s3.namespace)
        s5 == write(s4, nm)
    IN  write(s5, "/>")

elem_text(s, nm, chars) ==
    LET s1 == close_elem(s, FALSE)
        s2 == indent(s1)
        s3 == write(s2, "<")
        s4 == ns_prefix(s3, s3.namespace)
        s5 == write(write(s4, nm), ">")
        s6 == escape(s5, chars, FALSE)
        s7 == write(write(s6, "</"), nm)
    IN  write(s7, ">")

\* self.stack.push((name, false)); self.ns_stack.push(self.namespace);
push_elem(s, nm) ==
    IF ~Ok(s) THEN s
    ELSE [s EXCEPT !.stack = Append(@, <<nm, FALSE>>),
                   !.ns_stack = Append(@, s.namespace),
                   !.ids = Append(@, Len(s.elems) + 1),
                   !.elems = Append(@, [name |-> nm, ns |-> s.namespace,
                                        start |-> Len(s.writer) + 1,
                                        term |-> <<>>, close_at |-> <<>>,
                                        popped |-> <<>>])]

\* begin_elem as it would be if it pushed the namespace after writing "<"
begin_elem_late_ns(s, nm) ==
    LET s1 == close_elem(s, TRUE)
        s2 == mark_children(s1)
        s3 == indent(s2)
        s4 == IF Ok(s3) THEN [push_elem(s3, nm) EXCEPT !.ns_stack = s3.ns_stack] ELSE s3
        s5 == write(s4, "<")
        s6 == IF Ok(s5)
              THEN [s5 EXCEPT !.opened = TRUE, !.ns_stack = Append(@, s5.namespace)]
              ELSE s5
        s7 == ns_prefix(s6, s6.namespace)
    IN  write(s7, nm)

\* begin_elem as it would be if it did not mark the parent
begin_elem_no_mark(s, nm) ==
    LET s1 == close_elem(s, TRUE)
        s3 == indent(s1)
        s4 == push_elem(s3, nm)
        s5 == write(s4, "<")
        s6 == IF Ok(s5) THEN [s5 EXCEPT !.opened = TRUE] ELSE s5
        s7 == ns_prefix(s6, s6.namespace)
    IN  write(s7, nm)

begin_elem(s, nm) ==
    LET s1 == close_elem(s, TRUE)
        s2 == mark_children(s1)
        s3 == indent(s2)
        s4 == push_elem(s3, nm)
        s5 == write(s4, "<")
        s6 == IF Ok(s5) THEN [s5 EXCEPT !.opened = TRUE] ELSE s5
        s7 == ns_prefix(s6, s6.namespace)
    IN  write(s7, nm)

\* the body of end_elem after both pops: Some((name, children)) => { ... }
end_tag(s, nm, children, ns, id) ==
    LET skip == s.pretty /\ ~children
        s1 == IF s.pretty /\ ~s.text_content THEN indent(s) ELSE s
        s2 == IF Ok(s1) /\ s.pretty THEN [s1 EXCEPT !.text_content = FALSE] ELSE s1
        s3 == write(s2, "</")
        s4 == IF Ok(s3)
              THEN [s3 EXCEPT !.elems[id].close_at = Append(@, Len(s3.writer))]
              ELSE s3
        s5 == ns_prefix(s4, ns)
        s6 == write(s5, nm)
    IN  IF skip THEN s ELSE write(s6, ">")

\* end_elem as it would be if it wrote the prefix active at the time of the call
end_elem_active_ns(s) ==
    IF ~Ok(s) THEN s
    ELSE
    LET s0 == [s EXCEPT !.ends = @ + 1]
        s1 == close_elem(s0, FALSE)
    IN  IF ~Ok(s1) THEN s1
        ELSE IF s1.ns_stack = <<>> THEN [s1 EXCEPT !.err = "PanicCloseNamespace"]
        ELSE LET s2 == [s1 EXCEPT !.ns_stack = Front(@)]
             IN  IF s2.stack = <<>> THEN [s2 EXCEPT !.err = "PanicCloseElement"]
                 ELSE LET top == Last(s2.stack)
                          id == Last(s2.ids)
                          s3 == [s2 EXCEPT !.stack = Front(@), !.ids = Front(@),
                                           !.popped = Append(@, id),
                                           !.elems[id].popped = Append(@, top[2])]
                      IN  end_tag(s3, top[1], top[2], s3.namespace, id)

end_elem(s) ==
    IF ~Ok(s) THEN s
    ELSE
    LET s0 == [s EXCEPT !.ends = @ + 1]
        s1 == close_elem(s0, FALSE)
    IN  IF ~Ok(s1) THEN s1
        ELSE IF s1.ns_stack = <<>> THEN [s1 EXCEPT !.err = "PanicCloseNamespace"]
        ELSE LET ns == Last(s1.ns_stack)
                 s2 == [s1 EXCEPT !.ns_stack = Front(@)]
             IN  IF s2.stack = <<>> THEN [s2 EXCEPT !.err = "PanicCloseElement"]
                 ELSE LET top == Last(s2.stack)
                          id == Last(s2.ids)
                          s3 == [s2 EXCEPT !.stack = Front(@), !.ids = Front(@),
                                           !.popped = Append(@, id),
                                           !.elems[id].popped = Append(@, top[2])]
                      IN  end_tag(s3, top[1], top[2], ns, id)

empty_elem(s, nm) ==
    LET s1 == close_elem(s, TRUE)
        s2 == mark_children(s1)
        s3 == indent(s2)
        s4 == write(s3, "<")
        s5 == ns_prefix(s4, s4.namespace)
        s6 == write(s5, nm)
    IN  write(s6, "/>")

\* attr as it would be if it left out the space before the name
attr_no_space(s, nm, value) ==
    IF ~Ok(s) THEN s
    ELSE IF ~s.opened THEN [s EXCEPT !.err = "PanicAttr"]
    ELSE write(write(write(write(s, nm), "=\""), value), "\"")

attr(s, nm, value) ==
    IF ~Ok(s) THEN s
    ELSE IF ~s.opened THEN [s EXCEPT !.err = "PanicAttr"]
    ELSE write(write(write(write(write(s, " "), nm), "=\""), value), "\"")

attr_esc(s, nmchars, chars) ==
    IF ~Ok(s) THEN s
    ELSE IF ~s.opened THEN [s EXCEPT !.err = "PanicAttr"]
    ELSE LET s1 == write(s, " ")
             s2 == escape(s1, nmchars, TRUE)
             s3 == write(s2, "=\"")
             s4 == escape(s3, chars, FALSE)
         IN  write(s4, "\"")

RECURSIVE ns_items(_, _)
ns_items(s, ns_map) ==
    IF ns_map = <<>> \/ ~Ok(s) THEN s
    ELSE LET item == Head(ns_map)
             nm == IF item[1] = None THEN "xmlns" ELSE "xmlns:" \o item[1][1]
         IN  ns_items(attr(s, nm, item[2]), Tail(ns_map))

ns_decl(s, ns_map) ==
    IF ~Ok(s) THEN s
    ELSE IF ~s.opened THEN [s EXCEPT !.err = "PanicNsDecl"]
    ELSE ns_items(s, ns_map)

\* text as it would be if it did not set text_content
text_not_inline(s, chars) ==
    LET s1 == close_elem(s, TRUE)
        s2 == mark_children(s1)
    IN  escape(s2, chars, FALSE)

text(s, chars) ==
    LET s1 == close_elem(s, TRUE)
        s2 == mark_children(s1)
        s3 == IF Ok(s2) THEN [s2 EXCEPT !.text_content = TRUE] ELSE s2
    IN  escape(s3, chars, FALSE)

cdata(s, str) ==
    LET s1 == close_elem(s, TRUE)
        s2 == mark_children(s1)
        s3 == IF Ok(s2) /\ s2.pretty THEN indent(s2) ELSE s2
    IN  write(write(write(s3, "<![CDATA["), str), "]]>")

comment(s, chars) ==
    LET s1 == close_elem(s, TRUE)
        s2 == mark_children(s1)
        s3 == indent(s2)
        s4 == write(s3, "<!-- ")
        s5 == escape(s4, chars, FALSE)
    IN  write(s5, " -->")

RECURSIVE close_loop(_, _)
close_loop(s, k) ==
    IF k = 0 \/ ~Ok(s) THEN s ELSE close_loop(end_elem(s), k - 1)

\* close as it would be if it called end_elem once more after an error
close_one_more(s) ==
    LET t == close_loop(s, Len(s.stack)) IN
    IF t.err = "Io" /\ t.ends < Len(s.stack)
    THEN [end_elem([t EXCEPT !.err = "Ok"]) EXCEPT !.err = "Io"]
    ELSE t

\* close as it would be if it called end_elem at least once
close_at_least_once(s) == close_loop(s, IF s.stack = <<>> THEN 1 ELSE Len(s.stack))

\* close as it would be if its loop stopped one entry early
close_but_one(s) == close_loop(s, IF s.stack = <<>> THEN 0 ELSE Len(s.stack) - 1)

close(s) == close_loop(s, Len(s.stack))

flush(s) ==
    IF s.sink.fails /\ s.sink.after = 0 THEN [s EXCEPT !.err = "Io"] ELSE s

-----------------------------------------------------------------------------
(* The state machine: one action per public method.                        *)

Init0 ==
    /\ stack = <<>>
    /\ ns_stack = <<>>
    /\ writer = <<>>
    /\ namespace = None
    /\ pretty \in BOOLEAN
    /\ opened = FALSE
    /\ newline = FALSE
    /\ text_content = FALSE
    /\ status = "live"
    /\ hist = <<>>
    /\ ids = <<>>
    /\ elems = <<>>
    /\ buf = <<>>
    /\ ret = "idle"
    /\ buf0 = <<>>
    /\ accepted = <<>>
    /\ writes = 0

Init == Init0 /\ faulty = FALSE

InitFail == Init0 /\ faulty = TRUE

\* the call op(args) took the writer to t
Call(op, args, t) ==
    /\ stack' = t.stack
    /\ ns_stack' = t.ns_stack
    /\ writer' = t.writer
    /\ namespace' = t.namespace
    /\ pretty' = t.pretty
    /\ opened' = t.opened
    /\ newline' = t.newline
    /\ text_content' = t.text_content
    /\ ids' = t.ids
    /\ elems' = t.elems
    /\ status' = IF t.err \in Panics THEN "panicked" ELSE status
    /\ hist' = Append(hist, [op |-> op, args |-> args, res |-> t.err,
                             at |-> Len(writer),
                             ends |-> t.ends, popped |-> t.popped])
    /\ UNCHANGED <<faulty, wa_vars>>

BeginElem(nm) ==
    /\ status = "live"
    /\ \E f \in Faults : Call("begin_elem", <<nm>>, begin_elem(Self(f), nm))

Elem(nm) ==
    /\ status = "live"
    /\ \E f \in Faults : Call("elem", <<nm>>, elem(Self(f), nm))

EmptyElem(nm) ==
    /\ status = "live"
    /\ \E f \in Faults : Call("empty_elem", <<nm>>, empty_elem(Self(f), nm))

ElemText(nm, chars) ==
    /\ status = "live"
    /\ \E f \in Faults : Call("elem_text", <<nm, chars>>, elem_text(Self(f), nm, chars))

EndElem ==
    /\ status = "live"
    /\ \E f \in Faults : Call("end_elem", <<>>, end_elem(Self(f)))

Close ==
    /\ status = "live"
    /\ \E f \in Faults : Call("close", <<>>, close(Self(f)))

Attr(nm, value) ==
    /\ status = "live"
    /\ \E f \in Faults : Call("attr", <<nm, value>>, attr(Self(f), nm, value))

AttrEsc(nmchars, chars) ==
    /\ status = "live"
    /\ \E f \in Faults :
         Call("attr_esc", <<nmchars, chars>>, attr_esc(Self(f), nmchars, chars))

NsDecl(ns_map) ==
    /\ status = "live"
    /\ \E f \in Faults : Call("ns_decl", <<ns_map>>, ns_decl(Self(f), ns_map))

Text(chars) ==
    /\ status = "live"
    /\ \E f \in Faults : Call("text", <<chars>>, text(Self(f), chars))

Cdata(str) ==
    /\ status = "live"
    /\ \E f \in Faults : Call("cdata", <<str>>, cdata(Self(f), str))

Comment(chars) ==
    /\ status = "live"
    /\ \E f \in Faults : Call("comment", <<chars>>, comment(Self(f), chars))

Write(str) ==
    /\ status = "live"
    /\ \E f \in Faults : Call("write", <<str>>, write(Self(f), str))

Flush ==
    /\ status = "live"
    /\ \E f \in Faults : Call("flush", <<>>, flush(Self(f)))

SetCompactMode ==
    /\ status = "live"
    /\ Call("set_compact_mode", <<>>, [Self(NoFault) EXCEPT !.pretty = FALSE])

\* set_pretty_mode as it would be if it ended an open start tag
SetPrettyMode_ending_tag ==
    /\ status = "live"
    /\ Call("set_pretty_mode", <<>>,
            [close_elem(Self(NoFault), TRUE) EXCEPT !.pretty = TRUE])

SetPrettyMode ==
    /\ status = "live"
    /\ Call("set_pretty_mode", <<>>, [Self(NoFault) EXCEPT !.pretty = TRUE])

SetNamespace(ns) ==
    /\ status = "live"
    /\ Call("set_namespace", <<ns>>, [Self(NoFault) EXCEPT !.namespace = Some(ns)])

UnsetNamespace ==
    /\ status = "live"
    /\ Call("unset_namespace", <<>>, [Self(NoFault) EXCEPT !.namespace = None])

GetNamespace ==
    /\ status = "live"
    /\ Call("namespace", <<namespace>>, Self(NoFault))

IntoInner ==
    /\ status = "live"
    /\ status' = "consumed"
    /\ hist' = Append(hist, [op |-> "into_inner", args |-> <<>>, res |-> "Ok",
                             at |-> Len(writer),
                             ends |-> 0, popped |-> <<>>])
    /\ UNCHANGED <<stack, ns_stack, writer, namespace, pretty, opened, newline,
                   text_content, faulty, ids, elems, wa_vars>>

\* a run on a sink that never fails makes at most MaxCalls calls
More == Len(hist) < MaxCalls

\* every public method, on inputs of the small sets
Next ==
    \/ More /\ \E nm \in Names : BeginElem(nm)
    \/ More /\ \E nm \in LeafNames : Elem(nm)
    \/ More /\ \E nm \in LeafNames : EmptyElem(nm)
    \/ More /\ \E nm \in LeafNames, chars \in Texts : ElemText(nm, chars)
    \/ More /\ EndElem
    \/ More /\ Close
    \/ More /\ Attr("k", "v")
    \/ More /\ AttrEsc(<<"k">>, <<"\"">>)
    \/ More /\ \E m \in NsMaps : NsDecl(m)
    \/ More /\ \E chars \in Texts : Text(chars)
    \/ More /\ Cdata("d")
    \/ More /\ \E chars \in Texts : Comment(chars)
    \/ More /\ Write("r")
    \/ More /\ Flush
    \/ More /\ SetCompactMode
    \/ More /\ SetPrettyMode
    \/ More /\ \E ns \in Prefixes : SetNamespace(ns)
    \/ More /\ UnsetNamespace
    \/ More /\ GetNamespace
    \/ More /\ IntoInner

Spec == Init /\ [][Next]_vars

\* a run on a sink that may fail makes at most MaxFailCalls calls
MoreFail == Len(hist) < MaxFailCalls

\* the methods that push, pop or end a start tag, on a sink that may fail
NextFail ==
    \/ MoreFail /\ BeginElem("a")
    \/ MoreFail /\ \E nm \in LeafNames : Elem(nm)
    \/ MoreFail /\ \E chars \in Texts : Text(chars)
    \/ MoreFail /\ Attr("k", "v")
    \/ MoreFail /\ EndElem
    \/ MoreFail /\ Close
    \/ MoreFail /\ Flush
    \/ MoreFail /\ SetCompactMode
    \/ MoreFail /\ SetPrettyMode
    \/ MoreFail /\ \E ns \in Prefixes : SetNamespace(ns)

SpecFail == InitFail /\ [][NextFail]_vars

\* the bytes of the buffers handed to write_all
Bytes == {"x", "y"}
Bufs == UNION {[1..k -> Bytes] : k \in 0..MaxBuf}

\* what the sink's write(buf) may return: Ok(n) with n up to the length of
\* buf, or an error
WriteReturns(b) ==
    {[ok |-> TRUE, n |-> k] : k \in 0..Len(b)} \cup {[ok |-> FALSE, n |-> 0]}

\* write_all is called with a buffer of Bufs; no XmlWriter is involved
InitWriteAll ==
    /\ stack = <<>>
    /\ ns_stack = <<>>
    /\ writer = <<>>
    /\ namespace = None
    /\ pretty = FALSE
    /\ opened = FALSE
    /\ newline = FALSE
    /\ text_content = FALSE
    /\ status = "live"
    /\ faulty = TRUE
    /\ hist = <<>>
    /\ ids = <<>>
    /\ elems = <<>>
    /\ buf0 \in Bufs
    /\ buf = buf0
    /\ ret = "running"
    /\ accepted = <<>>
    /\ writes = 0

\* the loop body as it would be if Ok(n) were taken as "all of buf written"
WriteAllLoop_no_slice ==
    /\ ret = "running"
    /\ buf # <<>>
    /\ \E r \in WriteReturns(buf) :
         /\ writes' = writes + 1
         /\ IF ~r.ok THEN ret' = "Io" /\ UNCHANGED <<buf, accepted>>
            ELSE IF r.n = 0 THEN ret' = "WriteAllEof" /\ UNCHANGED <<buf, accepted>>
            ELSE /\ accepted' = accepted \o SubSeq(buf, 1, r.n)
                 /\ buf' = <<>>
                 /\ ret' = ret
    /\ UNCHANGED <<stack, ns_stack, writer, namespace, pretty, opened, newline,
                   text_content, status, faulty, hist, ids, elems, buf0>>

\* while !buf.is_empty() { match self.write(buf) { ... } }
WriteAllLoop ==
    /\ ret = "running"
    /\ buf # <<>>
    /\ \E r \in WriteReturns(buf) :
         /\ writes' = writes + 1
         /\ IF ~r.ok THEN ret' = "Io" /\ UNCHANGED <<buf, accepted>>
            ELSE IF r.n = 0 THEN ret' = "WriteAllEof" /\ UNCHANGED <<buf, accepted>>
            ELSE /\ accepted' = accepted \o SubSeq(buf, 1, r.n)
                 /\ buf' = SubSeq(buf, r.n + 1, Len(buf))
                 /\ ret' = ret
    /\ UNCHANGED <<stack, ns_stack, writer, namespace, pretty, opened, newline,
                   text_content, status, faulty, hist, ids, elems, buf0>>

\* the loop is left with buf empty: Ok(())
WriteAllReturn ==
    /\ ret = "running"
    /\ buf = <<>>
    /\ ret' = "Ok"
    /\ UNCHANGED <<stack, ns_stack, writer, namespace, pretty, opened, newline,
                   text_content, status, faulty, hist, ids, elems, buf, buf0,
                   accepted, writes>>

NextWriteAll ==
    \/ WriteAllLoop
    \/ WriteAllReturn

\* write_all runs on: its loop is not suspended for ever
SpecWriteAll == InitWriteAll /\ [][NextWriteAll]_vars /\ WF_vars(NextWriteAll)

\* the method op was not called yet
Fresh(op) == \A i \in 1..Len(hist) : hist[i].op # op

\* the calls of the end-to-end scenario of tests/woxml.rs, each at most once,
\* in any order
NextE2E ==
    \/ Fresh("begin_elem") /\ BeginElem("OTDS")
    \/ Fresh("ns_decl") /\ NsDecl(ScriptMap)
    \/ Fresh("comment") /\ Comment(ScriptComment)
    \/ Fresh("set_namespace") /\ SetNamespace("st")
    \/ Fresh("empty_elem") /\ EmptyElem("ok")
    \/ Fresh("end_elem") /\ EndElem
    \/ Fresh("close") /\ Close

SpecE2E == Init /\ [][NextE2E]_vars

\* no call was made yet, or begin_elem only
EscReady == hist = <<>> \/ (Len(hist) = 1 /\ hist[1].op = "begin_elem")

\* one call of a method that writes a caller's string, on every text of
\* EscTexts, on a fresh writer or right after begin_elem
NextEsc ==
    \/ hist = <<>> /\ BeginElem("a")
    \/ EscReady /\ \E chars \in EscTexts : Text(chars)
    \/ EscReady /\ \E chars \in EscTexts : Comment(chars)
    \/ EscReady /\ \E chars \in EscTexts : ElemText("c", chars)
    \/ EscReady /\ \E chars \in EscTexts : AttrEsc(chars, <<"v">>)
    \/ EscReady /\ \E chars \in EscTexts : AttrEsc(<<"k">>, chars)
    \/ EscReady /\ Attr(RawStr, RawStr)
    \/ EscReady /\ Cdata(RawStr)

SpecEsc == Init /\ [][NextEsc]_vars

-----------------------------------------------------------------------------
(* Reading the history.                                                    *)

Reverse(q) == [i \in 1..Len(q) |-> q[Len(q) + 1 - i]]

\* every call made so far returned Ok(())
AllOk == \A i \in 1..Len(hist) : hist[i].res = "Ok"

\* the number of calls of begin_elem made so far
RECURSIVE BeginsIn(_)
BeginsIn(h) ==
    IF h = <<>> THEN 0
    ELSE BeginsIn(Front(h)) + (IF Last(h).op = "begin_elem" THEN 1 ELSE 0)

\* the number of calls of end_elem made so far, those made by close() included
RECURSIVE EndsIn(_)
EndsIn(h) == IF h = <<>> THEN 0 ELSE EndsIn(Front(h)) + Last(h).ends

\* the step is a call of the method op
Calls(op) == hist' # hist /\ Last(hist').op = op

\* the last entry of the sink written by the k-th call
EndOf(k) == IF k = Len(hist) THEN Len(writer) ELSE hist[k + 1].at

\* the sink's entries written by the k-th call
Output(k) == SubSeq(writer, hist[k].at + 1, EndOf(k))

\* the last n entries of q
Suffix(q, n) == SubSeq(q, Len(q) - n + 1, Len(q))

\* the qualified name of an element opened under the namespace ns
QName(ns, nm) == IF ns = None THEN nm ELSE ns[1] \o ":" \o nm

\* the prefix of the tag that starts at entry i of the sink
PrefixAt(i) ==
    IF i + 2 <= Len(writer) /\ writer[i + 2] = ":" THEN Some(writer[i + 1]) ELSE None

-----------------------------------------------------------------------------
(* The claims.                                                             *)

\* C1: on a sink that never fails, every element opened by begin_elem is
\* terminated exactly once: its start tag is ended by "/>" and no closing tag
\* is written for it, or it is ended by ">" and exactly one closing tag is
\* written when it is popped; an entry popped with has_children = false had
\* "/>" written and gets no closing tag.
C1_TerminatedOnce ==
    \A i \in 1..Len(elems) :
        LET e == elems[i] IN
        /\ e.term = <<"/>">> => e.close_at = <<>>
        /\ e.popped # <<>> =>
              \/ e.term = <<"/>">> /\ e.close_at = <<>>
              \/ e.term = <<">">> /\ Len(e.close_at) = 1
        /\ e.popped = <<FALSE>> => e.term = <<"/>">> /\ e.close_at = <<>>

\* C2: after successful calls only, the stack depth is the number of begin_elem
\* calls minus the number of end_elem calls; a successful close() makes one
\* end_elem call per entry of the stack, innermost first, and leaves stack
\* and ns_stack empty.
C2_DepthAndClose ==
    /\ [](AllOk => Len(stack) + EndsIn(hist) = BeginsIn(hist))
    /\ [][(Calls("close") /\ Last(hist').res = "Ok") =>
            /\ stack' = <<>>
            /\ ns_stack' = <<>>
            /\ Last(hist').ends = Len(stack)
            /\ Last(hist').popped = Reverse(ids)]_vars

C2_Witness ==
    /\ hist # <<>>
    /\ Last(hist).op = "close"
    /\ Last(hist).res = "Ok"
    /\ Len(Last(hist).popped) = 2
    /\ AllOk

\* C3: in both modes begin_elem(x) immediately followed by end_elem() writes
\* the self-closing form <x/> for x and no closing tag.
C3_ChildlessSelfCloses ==
    \A k \in 2..Len(hist) :
        (/\ hist[k - 1].op = "begin_elem" /\ hist[k - 1].res = "Ok"
         /\ hist[k].op = "end_elem" /\ hist[k].res = "Ok")
        => LET e == elems[hist[k].popped[1]] IN
           Flatten(SubSeq(writer, e.start, EndOf(k)))
               = "<" \o QName(e.ns, e.name) \o "/>"

\* C4: the prefix written in an element's closing tag is the prefix that was
\* active, and was written in its start tag, when begin_elem was called.
C4_ClosingPrefix ==
    \A i \in 1..Len(elems) :
        LET e == elems[i] IN
        e.close_at # <<>> =>
            /\ PrefixAt(e.close_at[1]) = e.ns
            /\ PrefixAt(e.start) = e.ns
            /\ Flatten(SubSeq(writer, e.close_at[1], e.close_at[1] + 2 * Len(e.ns) + 2))
                   = "</" \o QName(e.ns, e.name) \o ">"

\* an element opened under prefix p is closed after the namespace was unset
C4_Witness ==
    /\ hist # <<>>
    /\ Last(hist).op = "end_elem"
    /\ Last(hist).res = "Ok"
    /\ namespace = None
    /\ \E i \in 1..Len(elems) :
          /\ Last(hist).popped = <<i>>
          /\ elems[i].ns = Some("p")
          /\ elems[i].close_at # <<>>

\* C5: stack and ns_stack have the same length between any two public calls,
\* also when writes of the sink fail in the middle of a call.
C5_StacksParallel == Len(stack) = Len(ns_stack)

\* a call of end_elem failed on a write after it had popped both stacks
C5_Witness ==
    /\ hist # <<>>
    /\ Last(hist).op = "end_elem"
    /\ Last(hist).res = "Io"
    /\ Last(hist).popped # <<>>

\* the methods that write an element, text, a comment or CDATA, or close one
ElementLevel ==
    {"begin_elem", "elem", "empty_elem", "elem_text", "text", "cdata", "comment",
     "end_elem", "close"}

\* the most recent element-level call of h is a successful begin_elem
StartTagOpen(h) ==
    \E k \in 1..Len(h) :
        /\ h[k].op = "begin_elem"
        /\ h[k].res = "Ok"
        /\ \A j \in (k + 1)..Len(h) : h[j].op \notin ElementLevel

\* the step leaves the writer and the sink as they were
SameWriter ==
    /\ status' = "live"
    /\ UNCHANGED <<stack, ns_stack, writer, namespace, pretty, opened, newline,
                   text_content>>

\* C6: attr and attr_esc succeed exactly when the most recent element-level
\* call was a successful begin_elem; otherwise they return the error
\* WriteWithoutElement, write nothing and leave the writer unchanged.
C6_AttrNeedsStartTag ==
    [][(Calls("attr") \/ Calls("attr_esc")) =>
          IF StartTagOpen(hist)
          THEN Last(hist').res = "Ok"
          ELSE Last(hist').res = "WriteWithoutElement" /\ SameWriter]_vars

\* C7: end_elem with no element open returns the error CloseElement, writes
\* nothing and leaves both stacks empty.
C7_EndElemOnEmpty ==
    [][(Calls("end_elem") /\ stack = <<>>) =>
          /\ Last(hist').res = "CloseElement"
          /\ SameWriter
          /\ stack' = <<>>
          /\ ns_stack' = <<>>]_vars

\* the attributes ns_decl is to write for the mapping m
RECURSIVE NsAttrs(_)
NsAttrs(m) ==
    IF m = <<>> THEN ""
    ELSE (IF Head(m)[1] = None
          THEN " xmlns=\"" \o Head(m)[2] \o "\""
          ELSE " xmlns:" \o Head(m)[1][1] \o "=\"" \o Head(m)[2] \o "\"")
         \o NsAttrs(Tail(m))

\* C8: ns_decl returns the error OpenNamespaceWithoutElement and writes nothing
\* when no start tag is unterminated, also for an empty mapping; otherwise it
\* writes one xmlns attribute per pair, in order, and leaves the start tag
\* unterminated.
C8_NsDecl ==
    [][Calls("ns_decl") =>
          IF ~opened
          THEN Last(hist').res = "OpenNamespaceWithoutElement" /\ SameWriter
          ELSE /\ Last(hist').res = "Ok"
               /\ Flatten(SubSeq(writer', Len(writer) + 1, Len(writer')))
                      = NsAttrs(Last(hist').args[1])
               /\ SubSeq(writer', 1, Len(writer)) = writer
               /\ opened']_vars

\* the end-to-end scenario of tests/woxml.rs and of the crate's documentation
Script ==
    << [op |-> "begin_elem", args |-> <<"OTDS">>],
       [op |-> "ns_decl", args |-> <<ScriptMap>>],
       [op |-> "comment", args |-> <<ScriptComment>>],
       [op |-> "set_namespace", args |-> <<"st">>],
       [op |-> "empty_elem", args |-> <<"ok">>],
       [op |-> "end_elem", args |-> <<>>],
       [op |-> "close", args |-> <<>>] >>

\* the calls made so far are the first k calls of the scenario
OnScript(k) ==
    /\ Len(hist) = k
    /\ k <= Len(Script)
    /\ \A i \in 1..k : hist[i].op = Script[i].op /\ hist[i].args = Script[i].args

\* C9: on a fresh compact-mode writer every call of the scenario succeeds and
\* the sink then holds the document without any whitespace between tokens.
C9_CompactEndToEnd ==
    ~pretty =>
        /\ \A k \in 1..Len(Script) : OnScript(k) => Last(hist).res = "Ok"
        /\ OnScript(Len(Script)) =>
              Flatten(writer) = "<OTDS xmlns=\"http://localhost/\" xmlns:st=\"http://127.0.0.1/\"><!-- hi --><st:ok/></OTDS>"

C9_Witness == ~pretty /\ OnScript(Len(Script)) /\ stack = <<>>

\* C10: on a fresh pretty-mode writer the scenario leaves the document with one
\* line per child, children indented by two spaces, the closing tag at depth 0
\* and no leading newline.
C10_PrettyEndToEnd ==
    pretty =>
        /\ \A k \in 1..Len(Script) : OnScript(k) => Last(hist).res = "Ok"
        /\ OnScript(Len(Script)) =>
              Flatten(writer) = "<OTDS xmlns=\"http://localhost/\" xmlns:st=\"http://127.0.0.1/\">\n  <!-- hi -->\n  <st:ok/>\n</OTDS>"

C10_Witness == pretty /\ OnScript(Len(Script)) /\ ns_stack = <<>>

\* what the claim says a character of a text or of a value is written as
Entity(c) ==
    IF c = "\"" THEN "&quot;"
    ELSE IF c = "'" THEN "&apos;"
    ELSE IF c = "&" THEN "&amp;"
    ELSE IF c = "<" THEN "&lt;"
    ELSE IF c = ">" THEN "&gt;"
    ELSE c

\* what the claim says chars is written as: character by character, in order
Escaped(chars) == [i \in 1..Len(chars) |-> Entity(chars[i])]

\* the same for the name of attr_esc, where a backslash is doubled
EscapedName(chars) ==
    [i \in 1..Len(chars) |-> IF chars[i] = "\\" THEN "\\\\" ELSE Entity(chars[i])]

\* C11: attr_esc (value), elem_text, text and comment write each character of
\* their text in order, the five reserved characters as their entities and
\* every other character, the backslash included, as itself; only the name of
\* attr_esc has its backslashes doubled; attr and cdata write their arguments
\* as they are.
C11_Escaping ==
    \A k \in 1..Len(hist) :
        LET h == hist[k]
            out == Output(k)
        IN  h.res = "Ok" =>
            /\ h.op = "text" => Suffix(out, Len(h.args[1])) = Escaped(h.args[1])
            /\ h.op = "comment" =>
                  Suffix(out, Len(h.args[1]) + 2)
                      = <<"<!-- ">> \o Escaped(h.args[1]) \o <<" -->">>
            /\ h.op = "elem_text" =>
                  Suffix(out, Len(h.args[2]) + 4)
                      = <<">">> \o Escaped(h.args[2]) \o <<"</", h.args[1], ">">>
            /\ h.op = "attr_esc" =>
                  out = <<" ">> \o EscapedName(h.args[1]) \o <<"=\"">>
                            \o Escaped(h.args[2]) \o <<"\"">>
            /\ h.op = "attr" => out = <<" ", h.args[1], "=\"", h.args[2], "\"">>
            /\ h.op = "cdata" => Suffix(out, 3) = <<"<![CDATA[", h.args[1], "]]>">>

\* a text with a backslash and a reserved character was written by text()
C11_Witness ==
    /\ hist # <<>>
    /\ Last(hist).op = "text"
    /\ Last(hist).res = "Ok"
    /\ Last(hist).args[1] = <<"\\", "<", "x">>
    /\ Suffix(writer, 3) = <<"\\", "&lt;", "x">>

\* C12: close() on a writer whose stack is empty makes no end_elem call,
\* returns Ok, writes nothing and changes nothing; so does a close() that
\* follows a successful close().
C12_CloseIdempotent ==
    [][Calls("close") =>
          /\ stack = <<>> =>
                Last(hist').res = "Ok" /\ Last(hist').ends = 0 /\ SameWriter
          /\ (hist # <<>> /\ Last(hist).op = "close" /\ Last(hist).res = "Ok") =>
                Last(hist').res = "Ok" /\ Last(hist').ends = 0 /\ SameWriter]_vars

\* close() was called again after a close() that closed an element
C12_Witness ==
    /\ Len(hist) >= 3
    /\ Last(hist).op = "close"
    /\ Last(hist).res = "Ok"
    /\ hist[Len(hist) - 1].op = "close"
    /\ hist[Len(hist) - 1].popped # <<>>
    /\ Last(hist).at = Len(writer)

\* the calls k-2, k-1 and k were begin_elem, the method op and end_elem, and
\* all three returned Ok
ParentOfOne(k, op) ==
    /\ k >= 3
    /\ hist[k - 2].op = "begin_elem" /\ hist[k - 2].res = "Ok"
    /\ hist[k - 1].op = op /\ hist[k - 1].res = "Ok"
    /\ hist[k].op = "end_elem" /\ hist[k].res = "Ok"

\* C13: elem(name) under an unterminated parent start tag ends that tag with
\* ">" in both modes, marks the top of the stack as having children, writes
\* <prefix:name/> and leaves the stack length unchanged; the parent's end_elem
\* then writes a closing tag.
C13_ElemUnderParent ==
    /\ [][(Calls("elem") /\ opened /\ Last(hist').res = "Ok") =>
            /\ writer'[Len(writer) + 1] = ">"
            /\ Len(stack') = Len(stack)
            /\ Last(stack')[2] = TRUE
            /\ Flatten(Suffix(writer', 2 * Len(namespace) + 3))
                   = "<" \o QName(namespace, Last(hist').args[1]) \o "/>"]_vars
    /\ [](\A k \in 1..Len(hist) :
            ParentOfOne(k, "elem") => elems[hist[k].popped[1]].close_at # <<>>)

\* the fields of the writer, its sink and the outcome of the call
WriterOf(s) ==
    <<s.stack, s.ns_stack, s.writer, s.namespace, s.pretty, s.opened, s.newline,
      s.text_content, s.err>>

\* C14: from the same writer and with the same name, elem and empty_elem
\* write the same bytes and leave the same writer.
C14_ElemIsEmptyElem ==
    status = "live" =>
        \A nm \in LeafNames :
            WriterOf(elem(Self(NoFault), nm)) = WriterOf(empty_elem(Self(NoFault), nm))

\* C15: elem_text under an unterminated parent start tag ends that tag with
\* ">" in both modes and leaves the stack length unchanged; the parent's
\* end_elem then writes a closing tag.
C15_ElemTextUnderParent ==
    /\ [][(Calls("elem_text") /\ opened /\ Last(hist').res = "Ok") =>
            /\ writer'[Len(writer) + 1] = ">"
            /\ Len(stack') = Len(stack)]_vars
    /\ [](\A k \in 1..Len(hist) :
            ParentOfOne(k, "elem_text") => elems[hist[k].popped[1]].close_at # <<>>)

\* C16: when a prefix is active as an element is opened, its closing tag
\* carries the qualified name prefix:name of its start tag, for the elements
\* of begin_elem / end_elem and for those elem_text writes in one call.
C16_QualifiedClosingTag ==
    /\ [](\A i \in 1..Len(elems) :
            LET e == elems[i] IN
            (e.ns # None /\ e.close_at # <<>>) =>
                Flatten(SubSeq(writer, e.close_at[1], e.close_at[1] + 4))
                    = "</" \o QName(e.ns, e.name) \o ">")
    /\ [][(Calls("elem_text") /\ namespace # None /\ Last(hist').res = "Ok") =>
            Flatten(Suffix(writer', 5))
                = "</" \o QName(namespace, Last(hist').args[1]) \o ">"]_vars

\* the methods that write a start tag
StartTagOps == {"begin_elem", "elem", "empty_elem", "elem_text"}

\* the first n entries of q are "  "
Indented(q, n) == Len(q) >= n /\ \A i \in 1..n : q[i] = "  "

\* C17: in pretty mode the start tag written by begin_elem, elem, empty_elem
\* or elem_text, unless it is the first output of the writer, begins on a new
\* line after two spaces per entry of the stack, also after a switch from
\* compact mode and after text or raw output; in compact mode nothing is
\* written before the "<".
C17_PrettyStartTagIndent ==
    [][(hist' # hist /\ Last(hist').op \in StartTagOps /\ Last(hist').res = "Ok") =>
          LET skip == IF opened THEN 1 ELSE 0
              new == SubSeq(writer', Len(writer) + skip + 1, Len(writer'))
              n == Len(stack)
          IN  IF ~pretty \/ Flatten(writer) = ""
              THEN new[1] = "<"
              ELSE /\ new[1] = "\n"
                   /\ Indented(Tail(new), n)
                   /\ Len(new) >= n + 2
                   /\ new[n + 2] = "<"]_vars

\* the calls that change no output and no element
Silent ==
    {"set_compact_mode", "set_pretty_mode", "set_namespace", "unset_namespace",
     "namespace", "flush"}

\* the method of the last call of h that is not Silent, "" if there is none
RECURSIVE LastContent(_)
LastContent(h) ==
    IF h = <<>> THEN ""
    ELSE IF Last(h).op \in Silent THEN LastContent(Front(h))
    ELSE Last(h).op

\* C18: in pretty mode, when end_elem writes the closing tag of an element
\* whose last child was an element, a comment or a CDATA section, the tag is
\* preceded by a newline and two spaces per entry left on the stack, whatever
\* text() calls came earlier.
C18_ClosingTagOwnLine ==
    [][(/\ Calls("end_elem")
        /\ pretty
        /\ Last(hist').res = "Ok"
        /\ LastContent(hist) \in
               {"elem", "empty_elem", "elem_text", "comment", "cdata", "end_elem"}
        /\ elems'[Last(hist').popped[1]].close_at # <<>>) =>
          LET new == SubSeq(writer', Len(writer) + 1, Len(writer'))
              n == Len(stack')
          IN  /\ new[1] = "\n"
              /\ Indented(Tail(new), n)
              /\ Len(new) >= n + 2
              /\ new[n + 2] = "</"]_vars

\* the calls from k0 to k were begin_elem, attributes, text and end_elem, and
\* all returned Ok
TextElement(k0, k) ==
    /\ k0 + 2 <= k
    /\ hist[k0].op = "begin_elem"
    /\ \A j \in (k0 + 1)..(k - 2) : hist[j].op \in {"attr", "attr_esc", "ns_decl"}
    /\ hist[k - 1].op = "text"
    /\ hist[k].op = "end_elem"
    /\ \A j \in k0..k : hist[j].res = "Ok"

\* C19: begin_elem(n), attributes, text(t), end_elem() writes the start tag,
\* ">", the escaped text and the closing tag </prefix:n> with nothing in
\* between, in pretty mode as in compact mode; text marks the element on top
\* of the stack as having children.
C19_InlineText ==
    /\ [](\A k0 \in 1..Len(hist) : \A k \in k0..Len(hist) :
            TextElement(k0, k) =>
                LET e == elems[hist[k].popped[1]] IN
                /\ Flatten(SubSeq(writer, e.start, hist[k0 + 1].at))
                       = "<" \o QName(e.ns, e.name)
                /\ Flatten(SubSeq(writer, hist[k - 1].at + 1, EndOf(k)))
                       = ">" \o Flatten(Escaped(hist[k - 1].args[1]))
                             \o "</" \o QName(e.ns, e.name) \o ">")
    /\ [][(Calls("text") /\ Last(hist').res = "Ok" /\ stack # <<>>) =>
            Last(stack')[2] = TRUE]_vars

\* a pretty writer wrote <a k="v">t&lt;</a>
C19_Witness ==
    /\ pretty
    /\ Len(hist) = 4
    /\ TextElement(1, 4)
    /\ hist[2].op = "attr"
    /\ Flatten(writer) = "<a k=\"v\">t&lt;</a>"

\* the start tag of element e was begun, and e was ended by "/>" or by a
\* whole closing tag
StartWritten(e) == Len(writer) >= e.start /\ writer[e.start] = "<"
Terminated(e) ==
    \/ \E i \in 1..Len(e.term) : e.term[i] = "/>"
    \/ /\ e.close_at # <<>>
       /\ Len(writer) >= e.close_at[1] + 2 * Len(e.ns) + 2
       /\ Flatten(SubSeq(writer, e.close_at[1], e.close_at[1] + 2 * Len(e.ns) + 2))
              = "</" \o QName(e.ns, e.name) \o ">"

\* C20: after a call that a failing sink write ended, the stack holds no
\* element of which nothing was written, and the call dropped no element
\* that was not ended by "/>" or by a closing tag.
C20_StackMatchesSink ==
    /\ \A j \in 1..Len(ids) : StartWritten(elems[ids[j]])
    /\ \A k \in 1..Len(hist) :
           hist[k].res = "Io" =>
               \A j \in 1..Len(hist[k].popped) : Terminated(elems[hist[k].popped[j]])

\* C21: a close() that a failing sink write ended made no end_elem call
\* after the one that failed: every call before it popped one entry, the
\* failing one popped one or none, the entries below stay on stack and
\* ns_stack as they were, and what was written before stays written.
C21_CloseStopsAtError ==
    [][(Calls("close") /\ Last(hist').res = "Io") =>
          LET h == Last(hist')
              p == Len(h.popped)
          IN  /\ h.ends >= 1
              /\ h.ends <= Len(stack)
              /\ p \in {h.ends - 1, h.ends}
              /\ h.popped = SubSeq(Reverse(ids), 1, p)
              /\ stack' = SubSeq(stack, 1, Len(stack) - p)
              /\ ns_stack' = SubSeq(ns_stack, 1, Len(ns_stack) - p)
              /\ SubSeq(writer', 1, Len(writer)) = writer]_vars

\* close() failed in its first end_elem call after the pop, and left the
\* outer element on the stack
C21_Witness ==
    /\ hist # <<>>
    /\ Last(hist).op = "close"
    /\ Last(hist).res = "Io"
    /\ Last(hist).ends = 1
    /\ Len(Last(hist).popped) = 1
    /\ Len(stack) = 1

\* C22: write_all returns; the bytes accepted so far followed by those left
\* are the buf it was called with; it returns Ok only when every byte was
\* accepted, WriteAllEof or the sink's error only from a write made with bytes
\* left, which are then still left; for an empty buf it returns Ok without
\* calling write.
C22_WriteAll ==
    /\ <>(ret # "running")
    /\ [](accepted \o buf = buf0)
    /\ [](ret = "Ok" => accepted = buf0 /\ buf = <<>>)
    /\ [](ret \in {"WriteAllEof", "Io"} => buf # <<>> /\ writes >= 1)
    /\ []((ret = "Ok" /\ buf0 = <<>>) => writes = 0)
    /\ [][(ret = "running" /\ ret' # ret) =>
            \/ ret' = "Ok" /\ buf = <<>> /\ writes' = writes
            \/ ret' \in {"WriteAllEof", "Io"} /\ writes' = writes + 1
                                            /\ buf' = buf /\ accepted' = accepted]_vars

\* write_all returned Ok after the sink took the buffer in three pieces
C22_Witness == ret = "Ok" /\ Len(buf0) = 3 /\ writes = 3 /\ accepted = buf0

\* C23: the setters, namespace(), flush() and into_inner() write nothing and
\* leave stack, ns_stack and opened as they are; no call removes or changes
\* what the sink already holds; into_inner() closes nothing.
C23_FrameAndAppendOnly ==
    /\ [][(hist' # hist /\ Last(hist').op \in Silent \cup {"into_inner"}) =>
            UNCHANGED <<writer, stack, ns_stack, opened>>]_vars
    /\ [][/\ Len(writer') >= Len(writer)
          /\ SubSeq(writer', 1, Len(writer)) = writer]_vars

\* into_inner() was called with two elements open and no closing tag written
C23_Witness ==
    /\ status = "consumed"
    /\ Len(stack) = 2
    /\ opened
    /\ writer # <<>>
    /\ \A i \in 1..Len(elems) : elems[i].close_at = <<>>

\* C24: opened implies that the stack is not empty and that its top entry has
\* has_children = false; only begin_elem sets opened; elem, empty_elem,
\* elem_text, text, cdata, comment and end_elem, when they return Ok, leave
\* opened = false.
C24_OpenedInvariant ==
    /\ [](opened => stack # <<>> /\ Last(stack)[2] = FALSE)
    /\ [][(opened' /\ ~opened) => Calls("begin_elem")]_vars
    /\ [][(/\ hist' # hist
           /\ Last(hist').op \in ElementLevel \ {"begin_elem", "close"}
           /\ Last(hist').res = "Ok") => ~opened']_vars

\* an inner start tag is open and has an attribute
C24_Witness ==
    /\ opened
    /\ Len(stack) = 2
    /\ Last(hist).op = "attr"
    /\ Last(hist).res = "Ok"

\* C25: every stack entry below the top has has_children = true, and no call
\* resets the flag of an entry that stays on the stack.
C25_BelowTopHasChildren ==
    /\ [](\A i \in 1..Len(stack) : i < Len(stack) => stack[i][2] = TRUE)
    /\ [][\A i \in 1..Len(stack) :
            (i <= Len(stack') /\ stack[i][2]) => stack'[i][2]]_vars

\* three elements are open
C25_Witness == Len(stack) = 3 /\ stack[1][2] /\ stack[2][2] /\ ~stack[3][2]

\* XmlWriter::compact_mode(w) / XmlWriter::pretty_mode(w), as a record
NewWriter(p) ==
    [stack |-> <<>>, ns_stack |-> <<>>, writer |-> <<>>, namespace |-> None,
     pretty |-> p, opened |-> FALSE, newline |-> FALSE, text_content |-> FALSE,
     err |-> "Ok", sink |-> NoFault,
     ids |-> <<>>, elems |-> <<>>, ends |-> 0, popped |-> <<>>]

\* the call recorded as h, made on the writer s
Apply(s, h) ==
    CASE h.op = "begin_elem" -> begin_elem(s, h.args[1])
      [] h.op = "elem" -> elem(s, h.args[1])
      [] h.op = "empty_elem" -> empty_elem(s, h.args[1])
      [] h.op = "elem_text" -> elem_text(s, h.args[1], h.args[2])
      [] h.op = "end_elem" -> end_elem(s)
      [] h.op = "close" -> close(s)
      [] h.op = "attr" -> attr(s, h.args[1], h.args[2])
      [] h.op = "attr_esc" -> attr_esc(s, h.args[1], h.args[2])
      [] h.op = "ns_decl" -> ns_decl(s, h.args[1])
      [] h.op = "text" -> text(s, h.args[1])
      [] h.op = "cdata" -> cdata(s, h.args[1])
      [] h.op = "comment" -> comment(s, h.args[1])
      [] h.op = "write" -> write(s, h.args[1])
      [] h.op = "set_namespace" -> [s EXCEPT !.namespace = Some(h.args[1])]
      [] h.op = "unset_namespace" -> [s EXCEPT !.namespace = None]
      [] OTHER -> s

\* the calls of h made in order on a new writer of mode p
RECURSIVE Replay(_, _)
Replay(h, p) ==
    IF h = <<>> THEN NewWriter(p) ELSE Apply(Replay(Front(h), p), Last(h))

\* the sink without the entries that indent() writes
IsLayout(tok) == tok \in {"\n", "  "}
Strip(w) == SelectSeq(w, LAMBDA tok : ~IsLayout(tok))

\* no call of h changed the mode
NoModeSwitch(h) ==
    \A k \in 1..Len(h) : h[k].op \notin {"set_compact_mode", "set_pretty_mode"}

\* C26: a call sequence without mode switch, made on a compact writer and on
\* a pretty writer with sinks that never fail, gives the same output once the
\* newlines and spaces of the indentation are removed.
C26_ModeChangesLayoutOnly ==
    (NoModeSwitch(hist) /\ AllOk) =>
        Flatten(Strip(Replay(hist, FALSE).writer))
            = Flatten(Strip(Replay(hist, TRUE).writer))

=============================================================================
